---- MODULE Spec2Model ----
(***************************************************************************)
(* Assignment stage of the PMBM tracker: cost-matrix construction,         *)
(* decoding of ranked assignments into global hypotheses, and the          *)
(* AssignmentSolver.solve loop around the Murty ranked-assignment solver.  *)
(*                                                                         *)
(* Log-domain quantities (log-weights, log-likelihoods, costs) are         *)
(* fixed-point multiples of ln 2, so that exp(x) is exactly 2^x and        *)
(* ceil(exp(w) * K) is computed in integers.  Row and column indices are   *)
(* 0-based as in the source.                                               *)
(***************************************************************************)
EXTENDS Integers, Sequences, FiniteSets, TLC

VARIABLES
    entry,                     \* "assign" or "AssignmentSolver": how the caller enters
    measurements,              \* the measurement list (only its length matters here)
    used,                      \* measurement indices whose new track the caller passes on
    global_hypothesis,         \* the parent global G
    old_tracks,                \* track_id -> Track of the previously detected targets
    num_of_desired_hypotheses, \* K_desired
    max_murty_steps_arg,       \* the caller's max_murty_steps (None when not given)
    track_counter,             \* next fresh track_id of Track.from_sth
    first_time_tracks,         \* result of get_targets_detected_for_first_time
    new_tracks,                \* the new_tracks argument of the assigner
    pc,                        \* position of the caller
    error,                     \* the exception raised, "" when none
    solver,                    \* the AssignmentSolver object (with its CostMatrix)
    murty_drawn,               \* solutions the Murty solver has already returned
    murty_iteration,           \* _murty_iteration of solve's loop
    accepted,                  \* the Murty solutions solve accepted, in order
    new_global_hypotheses,     \* solve's list of emitted globals
    heap,                      \* the mixture components alive: reference -> component
    intensity,                 \* PoissonRFS.intensity: references of its components
    given_mixture,             \* the mixture passed to the PoissonRFS constructor
    birth_mixture,             \* the mixture passed to the latest birth
    originals,                 \* the caller's components as they were when passed in
    last_call,                 \* the latest PoissonRFS call: arguments, state before, result
    issued_ids,                \* track_ids handed out by earlier first-time detections
    phase,                     \* position in the ageing cycle
    calls                      \* number of PoissonRFS calls made so far

vars == <<entry, measurements, used, global_hypothesis, old_tracks,
          num_of_desired_hypotheses, max_murty_steps_arg, track_counter,
          first_time_tracks, new_tracks, pc, error, solver, murty_drawn,
          murty_iteration, accepted, new_global_hypotheses,
          heap, intensity, given_mixture, birth_mixture, originals, last_call,
          issued_ids, phase, calls>>

(* the state of the Poisson point process *)
ppp_vars == <<heap, intensity, given_mixture, birth_mixture, originals, last_call,
              issued_ids, phase, calls>>

-----------------------------------------------------------------------------
(* Bounds of the model *)
MaxMeas == 2
MaxTracks == 2
MaxDesired == 2
(* at most MaxCells gated (measurement, column) cells: M * (T + 1) <= MaxCells *)
MaxCells == 6

(* np.inf: larger than any sum of finite costs of the model *)
Inf == 1000
(* Python's None for an optional integer *)
None == -1

LogWeights == {-1, 0}
(* log-likelihoods of the detected updates of the selected STHs; a parent   *)
(* Bernoulli of existence probability 0 gives log-likelihood -infinity, that *)
(* is a child of cost +infinity                                             *)
LogLiks == {-Inf, -2, 1}
(* log-likelihoods of the children at even and at odd measurement indices *)
LogLikPairs == {<<-2, 1>>, <<1, -2>>, <<-Inf, 1>>, <<-2, -Inf>>}
(* log-likelihood of the children of the STHs G does not select *)
OtherLogLikelihood == -3
(* log-likelihoods of the PPP detected updates: the clutter intensity may   *)
(* be below or above 1, so the cost of a new track may be of either sign    *)
NewTrackLogLiks == {-2, 1}
(* how the caller enters and the max_murty_steps it passes *)
Calls == ({"assign"} \X {None, 1}) \cup ({"AssignmentSolver"} \X {None, 0, 1, 3})

Range(n) == 0 .. (n - 1)
Len0(f) == Cardinality(DOMAIN f)

RECURSIVE Pow2(_)
Pow2(n) == IF n <= 0 THEN 1 ELSE 2 * Pow2(n - 1)

RECURSIVE SumOver(_, _)
SumOver(S, f) ==
    IF S = {} THEN 0
    ELSE LET x == CHOOSE y \in S : TRUE IN f[x] + SumOver(S \ {x}, f)

-----------------------------------------------------------------------------
(* Data model *)
Association(track_id, sth_id) == <<track_id, sth_id>>

GlobalHypothesis(log_weight, associations) ==
    [log_weight |-> log_weight, associations |-> associations]

SingleTargetHypothesis(sth_id, log_likelihood, cost, meas_idx, detection_hypotheses) ==
    [sth_id |-> sth_id, log_likelihood |-> log_likelihood, cost |-> cost,
     meas_idx |-> meas_idx, detection_hypotheses |-> detection_hypotheses]

Track(track_id, single_target_hypotheses) ==
    [track_id |-> track_id, single_target_hypotheses |-> single_target_hypotheses]

(* child sth_ids are unique within the track *)
ChildSthId(parent_sth_id, meas_idx, M) == 2 + parent_sth_id * M + meas_idx

(* child STH of the detected update of parent p by measurement m *)
DetectedChild(p, m, log_likelihood, M) ==
    SingleTargetHypothesis(ChildSthId(p, m, M), log_likelihood, -log_likelihood, m, <<>>)

(* the STH of track t that the parent global selects *)
SelectedSth(t) == t % 2

(* the child log-likelihoods of one parent STH over M measurements *)
LogLikRows(M) ==
    {[m \in Range(M) |-> IF m % 2 = 0 THEN ab[1] ELSE ab[2]] : ab \in LogLikPairs}

(* A previously detected track after the MBM measurement update: two STHs, *)
(* the one G selects gated by `gate` with child log-likelihoods ll, the    *)
(* other (selected by some other global) gated by every measurement.       *)
UpdatedTrack(t, gate, ll, M) ==
    Track(t, [p \in {0, 1} |->
        SingleTargetHypothesis(p, 0, 0, None,
            IF p = SelectedSth(t)
            THEN [m \in gate |-> DetectedChild(p, m, ll[m], M)]
            ELSE [m \in Range(M) |-> DetectedChild(p, m, OtherLogLikelihood, M)])])

(* track_id of the old track behind column j of G *)
OldTrackId(j) == j + 1

-----------------------------------------------------------------------------
(* PoissonRFS: first-time detections *)

(* A dictionary of tracks is the sequence of its values in insertion order; *)
(* every track is stored under its own track_id.                           *)
Keys(tracks) == {tracks[i].track_id : i \in DOMAIN tracks}
TrackOf(tracks, track_id) == tracks[CHOOSE i \in DOMAIN tracks : tracks[i].track_id = track_id]

(* the STH detected_update returns when its log-likelihood is log_likelihood *)
RootSth(meas_idx, log_likelihood) ==
    SingleTargetHypothesis(0, log_likelihood, -log_likelihood, meas_idx, <<>>)

TrackFromSth(track_id, sth) == Track(track_id, [s \in {0} |-> sth])

(* the dictionary get_targets_detected_for_first_time builds when the       *)
(* detected update of measurement m has log-likelihood ll[m]                *)
FirstTimeTracks(meas, counter, ll) ==
    [k \in 1 .. Len(meas) |-> TrackFromSth(counter + k - 1, RootSth(k - 1, ll[k - 1]))]

-----------------------------------------------------------------------------
(* CostMatrix *)

Matrix(rows, cols, at) == [rows |-> rows, cols |-> cols, at |-> at]

(* np.hstack([A, B]) *)
HStack(A, B) ==
    Matrix(A.rows, A.cols + B.cols,
           [rc \in Range(A.rows) \X Range(A.cols + B.cols) |->
               IF rc[2] < A.cols THEN A.at[rc] ELSE B.at[<<rc[1], rc[2] - A.cols>>]])

(* parent STH behind the (column_idx)-th association, column_idx 0-based *)
ParentSth(gh, tracks, column_idx) ==
    LET a == gh.associations[column_idx + 1]
    IN tracks[a[1]].single_target_hypotheses[a[2]]

(* CostDetected filling in the child's log_likelihood for its cost *)
CostDetectedLogLikelihood(gh, tracks, meas) ==
    LET M == Len(meas)
        T == Len(gh.associations)
    IN Matrix(M, T,
           [rc \in Range(M) \X Range(T) |->
               LET dh == ParentSth(gh, tracks, rc[2]).detection_hypotheses
               IN IF rc[1] \in DOMAIN dh THEN dh[rc[1]].log_likelihood ELSE Inf])

CostDetected(gh, tracks, meas) ==
    LET M == Len(meas)
        T == Len(gh.associations)
    IN Matrix(M, T,
           [rc \in Range(M) \X Range(T) |->
               LET dh == ParentSth(gh, tracks, rc[2]).detection_hypotheses
               IN IF rc[1] \in DOMAIN dh THEN dh[rc[1]].cost ELSE Inf])

ColumnRowToDetectedChildSth(gh, tracks, meas) ==
    LET T == Len(gh.associations)
        keys == {cr \in Range(T) \X Range(Len(meas)) :
                    cr[2] \in DOMAIN ParentSth(gh, tracks, cr[1]).detection_hypotheses}
    IN [cr \in keys |->
           <<gh.associations[cr[1] + 1][1],
             gh.associations[cr[1] + 1][2],
             cr[2],
             ParentSth(gh, tracks, cr[1]).detection_hypotheses[cr[2]].sth_id>>]

create_cost_for_associated_targets(gh, tracks, meas) ==
    [cost_detected |-> CostDetected(gh, tracks, meas),
     column_row_to_detected_child_sth |-> ColumnRowToDetectedChildSth(gh, tracks, meas)]

(* measurement indices of the root STHs of the new tracks *)
NewMeasIdx(tracks) == {tracks[id].single_target_hypotheses[0].meas_idx : id \in DOMAIN tracks}

(* track_id of the first track, in insertion order, whose root has meas_idx *)
FirstTrackOf(tracks, meas_idx) ==
    LET at == {i \in DOMAIN tracks : tracks[i].single_target_hypotheses[0].meas_idx = meas_idx}
        first == CHOOSE i \in at : \A other \in at : i <= other
    IN tracks[first].track_id

CostUndetected(tracks, meas) ==
    LET M == Len(meas)
    IN Matrix(M, M,
           [rc \in Range(M) \X Range(M) |->
               IF rc[1] = rc[2] /\ rc[1] \in NewMeasIdx(tracks)
               THEN TrackOf(tracks, FirstTrackOf(tracks, rc[1])).single_target_hypotheses[0].cost
               ELSE Inf])

ColumnRowToNewDetectedSth(tracks, meas) ==
    [m \in Range(Len(meas)) \cap NewMeasIdx(tracks) |->
        Association(TrackOf(tracks, FirstTrackOf(tracks, m)).track_id, 0)]

create_cost_for_undetected(tracks, meas) ==
    [cost_undetected |-> CostUndetected(tracks, meas),
     column_row_to_new_detected_sth |-> ColumnRowToNewDetectedSth(tracks, meas)]

(* create_cost_matrix stacking the two blocks in the other order *)
create_cost_matrix_swapped(gh, old, new, meas) ==
    HStack(create_cost_for_undetected(new, meas).cost_undetected,
           create_cost_for_associated_targets(gh, old, meas).cost_detected)

create_cost_matrix(gh, old, new, meas) ==
    HStack(create_cost_for_associated_targets(gh, old, meas).cost_detected,
           create_cost_for_undetected(new, meas).cost_undetected)

(* CostMatrix.__init__ *)
CostMatrix(gh, old, new, meas) ==
    [global_hypothesis |-> gh,
     old_tracks |-> old,
     new_tracks |-> new,
     measurements |-> meas,
     column_row_to_detected_child_sth |->
         create_cost_for_associated_targets(gh, old, meas).column_row_to_detected_child_sth,
     column_row_to_new_detected_sth |->
         create_cost_for_undetected(new, meas).column_row_to_new_detected_sth,
     num_of_old_tracks |-> Len(gh.associations),
     cost_matrix |-> create_cost_matrix(gh, old, new, meas)]

(* RowAssociation taking the parent's sth_id for the child's *)
RowAssociationParentId(cm, measurement_row, target_column) ==
    IF target_column + 1 > cm.num_of_old_tracks
    THEN cm.column_row_to_new_detected_sth[target_column - cm.num_of_old_tracks]
    ELSE LET e == cm.column_row_to_detected_child_sth[<<target_column, measurement_row>>]
         IN Association(e[1], e[2])

(* one row of assignment_to_associations: the association of measurement_row *)
RowAssociation(cm, measurement_row, target_column) ==
    IF target_column + 1 > cm.num_of_old_tracks
    THEN cm.column_row_to_new_detected_sth[target_column - cm.num_of_old_tracks]
    ELSE LET e == cm.column_row_to_detected_child_sth[<<target_column, measurement_row>>]
         IN Association(e[1],
                cm.old_tracks[e[1]].single_target_hypotheses[e[2]].detection_hypotheses[e[3]].sth_id)

(* the lookup of a row fails (KeyError / ValueError on an unrecorded entry) *)
RowRaises(cm, measurement_row, target_column) ==
    IF target_column + 1 > cm.num_of_old_tracks
    THEN (target_column - cm.num_of_old_tracks) \notin DOMAIN cm.column_row_to_new_detected_sth
    ELSE <<target_column, measurement_row>> \notin DOMAIN cm.column_row_to_detected_child_sth

assignment_to_associations_raises(cm, solution) ==
    \E r \in DOMAIN solution : RowRaises(cm, r, solution[r])

(* assignment_to_associations leaving out the last measurement row *)
assignment_to_associations_short(cm, solution) ==
    [i \in 1 .. (Len0(solution) - 1) |-> RowAssociation(cm, i - 1, solution[i - 1])]

assignment_to_associations(cm, solution) ==
    [i \in 1 .. Len0(solution) |-> RowAssociation(cm, i - 1, solution[i - 1])]

(* the rows of the solution, ascending, whose column c satisfies c + 1 > T *)
NewTargetRows(cm, solution) ==
    LET Test(r) == solution[r] + 1 > cm.num_of_old_tracks
    IN SelectSeq([i \in 1 .. Len0(solution) |-> i - 1], Test)

(* the rows of the solution, ascending, whose column c satisfies c + 1 < T *)
PreviousTargetRows(cm, solution) ==
    LET Test(r) == solution[r] + 1 < cm.num_of_old_tracks
    IN SelectSeq([i \in 1 .. Len0(solution) |-> i - 1], Test)

optimized_assignment_to_associations(cm, solution) ==
    LET new_target_rows == NewTargetRows(cm, solution)
        previous_target_rows == PreviousTargetRows(cm, solution)
        new_associations ==
            [k \in 1 .. Len(new_target_rows) |->
                cm.column_row_to_new_detected_sth[
                    solution[new_target_rows[k]] - cm.num_of_old_tracks]]
        previous_target_associations ==
            [k \in 1 .. Len(previous_target_rows) |->
                LET e == cm.column_row_to_detected_child_sth[
                             <<solution[previous_target_rows[k]], previous_target_rows[k]>>]
                IN Association(e[1], e[4])]
    IN new_associations \o previous_target_associations

-----------------------------------------------------------------------------
(* Murty ranked-assignment solver *)

(* one finite-cost column per row, columns pairwise distinct *)
ValidAssignments(C) ==
    {pi \in [Range(C.rows) -> Range(C.cols)] :
        /\ \A r1, r2 \in Range(C.rows) : r1 # r2 => pi[r1] # pi[r2]
        /\ \A r \in Range(C.rows) : C.at[<<r, pi[r]>>] < Inf}

AssignmentCost(C, pi) == SumOver(Range(C.rows), [r \in Range(C.rows) |-> C.at[<<r, pi[r]>>]])

(* the solutions draw() may return next: the cheapest not yet returned *)
MurtyNext(C, drawn) ==
    LET rest == ValidAssignments(C) \ drawn
        cost == [pi \in rest |-> AssignmentCost(C, pi)]
    IN {pi \in rest : \A other \in rest : cost[pi] <= cost[other]}

-----------------------------------------------------------------------------
(* AssignmentSolver *)

(* Python's `a or b` for an optional integer a *)
PyOr(a, b) == IF a = None \/ a = 0 THEN b ELSE a

(* get_murty_steps leaving out the weight of the parent global *)
get_murty_steps_unweighted(log_weight, desired) == desired

(* int(np.ceil(np.exp(log_weight) * num_of_desired_hypotheses)) *)
get_murty_steps(log_weight, desired) ==
    IF log_weight >= 0
    THEN desired * Pow2(log_weight)
    ELSE (desired + Pow2(-log_weight) - 1) \div Pow2(-log_weight)

(* the assert of AssignmentSolver.__init__ *)
InitAsserts(meas) == Len(meas) > 0

AssignmentSolverInit(gh, old, new, meas, desired, max_steps) ==
    [global_hypothesis |-> gh,
     cost_matrix |-> CostMatrix(gh, old, new, meas),
     num_of_desired_hypotheses |-> desired,
     max_murty_steps |-> PyOr(max_steps, get_murty_steps(gh.log_weight, desired))]

(* the max_murty_steps that reaches AssignmentSolver.__init__ *)
PassedMaxMurtySteps(how, arg) == IF how = "assign" THEN None ELSE arg

(* CurrentLogWeight adding the cost *)
CurrentLogWeightPlus(log_weight, solution_cost) == log_weight + solution_cost

CurrentLogWeight(log_weight, solution_cost) == log_weight - solution_cost

(* the new tracks the caller hands to the assigner *)
PassedNewTracks(tracks, keep) ==
    LET Kept(track) == track.single_target_hypotheses[0].meas_idx \in keep
    IN SelectSeq(tracks, Kept)

-----------------------------------------------------------------------------
(* State machine of the assignment stage *)

(* no Poisson point process is under observation *)
NoPPP ==
    /\ heap = <<>>
    /\ intensity = <<>>
    /\ given_mixture = <<>>
    /\ birth_mixture = <<>>
    /\ originals = <<>>
    /\ last_call = [op |-> "none"]
    /\ issued_ids = {}
    /\ phase = "none"
    /\ calls = 0

Init ==
    \E M \in 0 .. MaxMeas, T \in 0 .. MaxTracks :
    \E gates \in [Range(T) -> SUBSET Range(M)], ll \in [Range(T) -> LogLikRows(M)],
       lw \in LogWeights, call \in Calls :
        /\ M * (T + 1) <= MaxCells
        /\ entry = call[1]
        /\ measurements = [i \in 1 .. M |-> i - 1]
        /\ used \in SUBSET Range(M)
        /\ global_hypothesis =
               GlobalHypothesis(lw, [i \in 1 .. T |->
                   Association(OldTrackId(i - 1), SelectedSth(OldTrackId(i - 1)))])
        /\ old_tracks = [t \in {OldTrackId(j) : j \in Range(T)} |->
               UpdatedTrack(t, gates[t - 1], ll[t - 1], M)]
        /\ num_of_desired_hypotheses \in 1 .. MaxDesired
        /\ max_murty_steps_arg = call[2]
        /\ track_counter = T + 1
        /\ first_time_tracks = <<>>
        /\ new_tracks = <<>>
        /\ pc = "start"
        /\ error = ""
        /\ solver = <<>>
        /\ murty_drawn = {}
        /\ murty_iteration = 0
        /\ accepted = <<>>
        /\ new_global_hypotheses = <<>>
        /\ NoPPP

(* PoissonRFS.get_targets_detected_for_first_time, then the caller's choice *)
(* of the new tracks it passes on                                          *)
FirstTimeDetection ==
    /\ pc = "start"
    /\ \E ll \in [Range(Len(measurements)) -> NewTrackLogLiks] :
          first_time_tracks' = FirstTimeTracks(measurements, track_counter, ll)
    /\ track_counter' = track_counter + Len(measurements)
    /\ new_tracks' = PassedNewTracks(first_time_tracks', used)
    /\ pc' = "tracks"
    /\ UNCHANGED ppp_vars
    /\ UNCHANGED <<entry, measurements, used, global_hypothesis, old_tracks,
                   num_of_desired_hypotheses, max_murty_steps_arg, error, solver,
                   murty_drawn, murty_iteration, accepted, new_global_hypotheses>>

(* AssignmentSolver.__init__ (directly, or through assign) *)
Construct ==
    /\ pc = "tracks"
    /\ InitAsserts(measurements)
    /\ solver' = AssignmentSolverInit(global_hypothesis, old_tracks, new_tracks,
                     measurements, num_of_desired_hypotheses,
                     PassedMaxMurtySteps(entry, max_murty_steps_arg))
    /\ pc' = "constructed"
    /\ UNCHANGED ppp_vars
    /\ UNCHANGED <<entry, measurements, used, global_hypothesis, old_tracks,
                   num_of_desired_hypotheses, max_murty_steps_arg, track_counter,
                   first_time_tracks, new_tracks, error, murty_drawn,
                   murty_iteration, accepted, new_global_hypotheses>>

(* the assert of AssignmentSolver.__init__ fails *)
ConstructRaises ==
    /\ pc = "tracks"
    /\ ~InitAsserts(measurements)
    /\ pc' = "raised"
    /\ error' = "AssertionError"
    /\ UNCHANGED ppp_vars
    /\ UNCHANGED <<entry, measurements, used, global_hypothesis, old_tracks,
                   num_of_desired_hypotheses, max_murty_steps_arg, track_counter,
                   first_time_tracks, new_tracks, solver, murty_drawn,
                   murty_iteration, accepted, new_global_hypotheses>>

(* solve: murty_solver = Murty(cost_matrix); new_global_hypotheses = [] *)
SolveBegin ==
    /\ pc = "constructed"
    /\ murty_drawn' = {}
    /\ murty_iteration' = 0
    /\ new_global_hypotheses' = <<>>
    /\ accepted' = <<>>
    /\ pc' = "solving"
    /\ UNCHANGED ppp_vars
    /\ UNCHANGED <<entry, measurements, used, global_hypothesis, old_tracks,
                   num_of_desired_hypotheses, max_murty_steps_arg, track_counter,
                   first_time_tracks, new_tracks, error, solver>>

(* one iteration of solve's loop in which draw() succeeds *)
DrawSolution ==
    /\ pc = "solving"
    /\ murty_iteration < solver.max_murty_steps
    /\ \E murty_solution \in MurtyNext(solver.cost_matrix.cost_matrix, murty_drawn) :
        LET solution_cost == AssignmentCost(solver.cost_matrix.cost_matrix, murty_solution)
        IN /\ murty_drawn' = murty_drawn \cup {murty_solution}
           /\ murty_iteration' = murty_iteration + 1
           /\ IF assignment_to_associations_raises(solver.cost_matrix, murty_solution)
              THEN /\ pc' = "raised"
                   /\ error' = "KeyError"
                   /\ UNCHANGED <<accepted, new_global_hypotheses>>
              ELSE /\ new_global_hypotheses' = Append(new_global_hypotheses,
                          GlobalHypothesis(
                              CurrentLogWeight(solver.global_hypothesis.log_weight, solution_cost),
                              assignment_to_associations(solver.cost_matrix, murty_solution)))
                   /\ accepted' = Append(accepted, murty_solution)
                   /\ UNCHANGED <<pc, error>>
    /\ UNCHANGED ppp_vars
    /\ UNCHANGED <<entry, measurements, used, global_hypothesis, old_tracks,
                   num_of_desired_hypotheses, max_murty_steps_arg, track_counter,
                   first_time_tracks, new_tracks, solver>>

(* DrawExhausted going on with the loop (continue for break) *)
DrawExhaustedContinue ==
    /\ pc = "solving"
    /\ murty_iteration < solver.max_murty_steps
    /\ MurtyNext(solver.cost_matrix.cost_matrix, murty_drawn) = {}
    /\ murty_iteration' = murty_iteration + 1
    /\ UNCHANGED ppp_vars
    /\ UNCHANGED <<entry, measurements, used, global_hypothesis, old_tracks,
                   num_of_desired_hypotheses, max_murty_steps_arg, track_counter,
                   first_time_tracks, new_tracks, pc, error, solver, murty_drawn,
                   accepted, new_global_hypotheses>>

(* draw() reports no more solutions: break, return the list *)
DrawExhausted ==
    /\ pc = "solving"
    /\ murty_iteration < solver.max_murty_steps
    /\ MurtyNext(solver.cost_matrix.cost_matrix, murty_drawn) = {}
    /\ murty_iteration' = murty_iteration + 1
    /\ pc' = "returned"
    /\ UNCHANGED ppp_vars
    /\ UNCHANGED <<entry, measurements, used, global_hypothesis, old_tracks,
                   num_of_desired_hypotheses, max_murty_steps_arg, track_counter,
                   first_time_tracks, new_tracks, error, solver, murty_drawn,
                   accepted, new_global_hypotheses>>

(* range(max_murty_steps) is used up: return the list *)
LoopEnd ==
    /\ pc = "solving"
    /\ murty_iteration >= solver.max_murty_steps
    /\ pc' = "returned"
    /\ UNCHANGED ppp_vars
    /\ UNCHANGED <<entry, measurements, used, global_hypothesis, old_tracks,
                   num_of_desired_hypotheses, max_murty_steps_arg, track_counter,
                   first_time_tracks, new_tracks, error, solver, murty_drawn,
                   murty_iteration, accepted, new_global_hypotheses>>

Next ==
    \/ FirstTimeDetection
    \/ Construct
    \/ ConstructRaises
    \/ SolveBegin
    \/ DrawSolution
    \/ DrawExhausted
    \/ LoopEnd

Spec == Init /\ [][Next]_vars

-----------------------------------------------------------------------------
(* Properties *)

(* solve has started: new_global_hypotheses is solve's list *)
InSolve == pc \in {"solving", "returned"}
(* the solver and its cost matrix exist *)
Built == pc \in {"constructed", "solving", "returned"}

NumTracks == Len(global_hypothesis.associations)
NumMeas == Len(measurements)

(* detection_hypotheses of the parent STH behind column j, read from the tracks *)
ChildrenOfColumn(j) ==
    old_tracks[global_hypothesis.associations[j + 1][1]]
        .single_target_hypotheses[global_hypothesis.associations[j + 1][2]]
        .detection_hypotheses

(* the association names a child STH of the parent STH of that track in old_tracks *)
NamesChildSth(a) ==
    \E j \in Range(NumTracks) :
        /\ global_hypothesis.associations[j + 1][1] = a[1]
        /\ \E m \in DOMAIN ChildrenOfColumn(j) : ChildrenOfColumn(j)[m].sth_id = a[2]

(* the association names the root STH of a track of new_tracks *)
NamesNewRoot(a) ==
    /\ a[1] \in Keys(new_tracks)
    /\ a[2] = 0
    /\ TrackOf(new_tracks, a[1]).track_id = a[1]
    /\ 0 \in DOMAIN TrackOf(new_tracks, a[1]).single_target_hypotheses

(* C1: every global emitted by solve has pairwise distinct track_ids, and   *)
(* each of its (track_id, sth_id) names an existing STH: a child STH in     *)
(* detection_hypotheses of that track's parent STH in old_tracks, or the    *)
(* root STH (sth_id 0) of a track of new_tracks.                            *)
C1_EmittedGlobalsReferenceExistingSths ==
    InSolve =>
        \A i \in 1 .. Len(new_global_hypotheses) :
            LET g == new_global_hypotheses[i].associations
            IN /\ \A a, b \in 1 .. Len(g) : a # b => g[a][1] # g[b][1]
               /\ \A a \in 1 .. Len(g) : NamesChildSth(g[a]) \/ NamesNewRoot(g[a])

(* a returned global that pairs one measurement with a child STH of an old  *)
(* track and another with a new track                                       *)
C1_Witness ==
    /\ pc = "returned"
    /\ \E i \in 1 .. Len(new_global_hypotheses) :
           LET g == new_global_hypotheses[i].associations
           IN /\ Len(g) = 2
              /\ \E a, b \in 1 .. 2 : NamesChildSth(g[a]) /\ NamesNewRoot(g[b])

(* C2: each track referenced by the parent global appears exactly once in   *)
(* every global solve emits from it, also when it got no measurement.       *)
C2_OneSthPerLiveTrack ==
    InSolve =>
        \A i \in 1 .. Len(new_global_hypotheses) :
            LET g == new_global_hypotheses[i].associations
            IN \A j \in 1 .. NumTracks :
                   Cardinality({a \in 1 .. Len(g) :
                       g[a][1] = global_hypothesis.associations[j][1]}) = 1

(* C3: the log_weight of each emitted global is G.log_weight minus the sum  *)
(* over the measurement rows m of C[m, pi(m)] for the accepted solution pi. *)
C3_LogWeightIsParentMinusCost ==
    InSolve =>
        /\ Len(accepted) = Len(new_global_hypotheses)
        /\ \A i \in 1 .. Len(new_global_hypotheses) :
               new_global_hypotheses[i].log_weight =
                   global_hypothesis.log_weight
                   - SumOver(Range(NumMeas),
                         [m \in Range(NumMeas) |->
                             solver.cost_matrix.cost_matrix.at[<<m, accepted[i][m]>>]])

(* two measurements, an emitted global with a non-zero assignment cost *)
C3_Witness ==
    /\ pc = "returned"
    /\ NumMeas = 2
    /\ NumTracks >= 1
    /\ \E i \in 1 .. Len(new_global_hypotheses) :
           /\ new_global_hypotheses[i].log_weight # global_hypothesis.log_weight
           /\ \E m \in Range(NumMeas) : accepted[i][m] < NumTracks

(* the built matrix and reverse maps *)
BuiltMatrix == solver.cost_matrix.cost_matrix
DetectedMap == solver.cost_matrix.column_row_to_detected_child_sth
NewMap == solver.cost_matrix.column_row_to_new_detected_sth

(* the cells of the left block under which the parent STH has a child *)
ChildCells ==
    {jm \in Range(NumTracks) \X Range(NumMeas) : jm[2] \in DOMAIN ChildrenOfColumn(jm[1])}

(* C4 (amended): in the left M x T block, C[m, j] is the cost of the child  *)
(* STH detection_hypotheses[m] of the parent STH of column j when m is a    *)
(* key of detection_hypotheses and +infinity otherwise; the reverse map     *)
(* holds (j, m) -> (track_id, parent_sth_id, m, child_sth_id) exactly for   *)
(* the keys m of detection_hypotheses of column j, whatever the child's     *)
(* cost.                                                                    *)
C4_LeftBlockKeys ==
    Built =>
        /\ \A j \in Range(NumTracks), m \in Range(NumMeas) :
               BuiltMatrix.at[<<m, j>>] =
                   IF m \in DOMAIN ChildrenOfColumn(j)
                   THEN ChildrenOfColumn(j)[m].cost
                   ELSE Inf
        /\ DOMAIN DetectedMap = ChildCells
        /\ \A jm \in DOMAIN DetectedMap :
               DetectedMap[jm] =
                   <<global_hypothesis.associations[jm[1] + 1][1],
                     global_hypothesis.associations[jm[1] + 1][2],
                     jm[2],
                     ChildrenOfColumn(jm[1])[jm[2]].sth_id>>

(* C4 (as stated): in the left M x T block, C[m, j] is the cost of the      *)
(* child STH detection_hypotheses[m] of the parent STH of column j when m   *)
(* is a key of detection_hypotheses and +infinity otherwise; the reverse    *)
(* map holds (j, m) -> (track_id, parent_sth_id, m, child_sth_id) exactly   *)
(* for the finite entries.                                                  *)
C4_LeftBlock ==
    Built =>
        /\ \A j \in Range(NumTracks), m \in Range(NumMeas) :
               BuiltMatrix.at[<<m, j>>] =
                   IF m \in DOMAIN ChildrenOfColumn(j)
                   THEN ChildrenOfColumn(j)[m].cost
                   ELSE Inf
        /\ DOMAIN DetectedMap =
               {jm \in Range(NumTracks) \X Range(NumMeas) :
                   BuiltMatrix.at[<<jm[2], jm[1]>>] < Inf}
        /\ \A jm \in DOMAIN DetectedMap :
               DetectedMap[jm] =
                   <<global_hypothesis.associations[jm[1] + 1][1],
                     global_hypothesis.associations[jm[1] + 1][2],
                     jm[2],
                     ChildrenOfColumn(jm[1])[jm[2]].sth_id>>

(* a 2 x 2 left block with a finite entry, an entry that is infinite for   *)
(* lack of a child, a child of cost +infinity that the reverse map records, *)
(* and different finite costs                                               *)
C4_Witness ==
    /\ pc = "constructed"
    /\ NumTracks = 2
    /\ NumMeas = 2
    /\ BuiltMatrix.at[<<0, 0>>] < Inf
    /\ <<0, 1>> \in DOMAIN DetectedMap
    /\ BuiltMatrix.at[<<1, 0>>] = Inf
    /\ <<1, 0>> \notin DOMAIN DetectedMap
    /\ BuiltMatrix.at[<<0, 1>>] = Inf
    /\ BuiltMatrix.at[<<1, 1>>] < Inf
    /\ BuiltMatrix.at[<<1, 1>>] # BuiltMatrix.at[<<0, 0>>]

(* the tracks of new_tracks whose root STH carries measurement m *)
NewTracksOf(m) ==
    {id \in Keys(new_tracks) :
        TrackOf(new_tracks, id).single_target_hypotheses[0].meas_idx = m}

(* C5: the right M x M block is diagonal-only: C[m, T + m] is the cost of   *)
(* the root STH of the new track of measurement m and the reverse map       *)
(* sends m to (its track_id, 0); every other entry of the block is          *)
(* +infinity; the whole matrix has shape M x (T + M).                       *)
C5_RightBlock ==
    Built =>
        /\ BuiltMatrix.rows = NumMeas
        /\ BuiltMatrix.cols = NumTracks + NumMeas
        /\ DOMAIN BuiltMatrix.at = Range(NumMeas) \X Range(NumTracks + NumMeas)
        /\ \A m \in Range(NumMeas) :
               /\ \A id \in NewTracksOf(m) :
                      /\ BuiltMatrix.at[<<m, NumTracks + m>>] =
                             TrackOf(new_tracks, id).single_target_hypotheses[0].cost
                      /\ m \in DOMAIN NewMap
                      /\ NewMap[m] = <<TrackOf(new_tracks, id).track_id, 0>>
               /\ NewTracksOf(m) = {} => BuiltMatrix.at[<<m, NumTracks + m>>] = Inf
               /\ \A c \in Range(NumMeas) :
                      c # m => BuiltMatrix.at[<<m, NumTracks + c>>] = Inf

(* old tracks present, one measurement with a new track and one without *)
C5_Witness ==
    /\ pc = "constructed"
    /\ NumTracks >= 1
    /\ NumMeas = 2
    /\ NewTracksOf(0) = {}
    /\ NewTracksOf(1) # {}
    /\ BuiltMatrix.at[<<1, NumTracks + 1>>] < Inf
    /\ \E j \in Range(NumTracks) : BuiltMatrix.at[<<1, j>>] < Inf

(* C6: for every valid assignment pi on the built matrix, decoding returns  *)
(* exactly M associations, the m-th being the child STH of column pi(m)'s   *)
(* track under measurement m when pi(m) < T and the new track of            *)
(* measurement pi(m) - T otherwise, as the reverse maps recorded it.        *)
C6_DecodeInvertsEncode ==
    Built =>
        \A pi \in ValidAssignments(BuiltMatrix) :
            /\ ~assignment_to_associations_raises(solver.cost_matrix, pi)
            /\ LET d == assignment_to_associations(solver.cost_matrix, pi)
               IN /\ DOMAIN d = 1 .. NumMeas
                  /\ \A m \in Range(NumMeas) :
                         IF pi[m] < NumTracks
                         THEN /\ d[m + 1] =
                                    <<global_hypothesis.associations[pi[m] + 1][1],
                                      ChildrenOfColumn(pi[m])[m].sth_id>>
                              /\ d[m + 1] = <<DetectedMap[<<pi[m], m>>][1],
                                              DetectedMap[<<pi[m], m>>][4]>>
                         ELSE /\ \E id \in NewTracksOf(pi[m] - NumTracks) :
                                     d[m + 1] = <<id, 0>>
                              /\ d[m + 1] = NewMap[pi[m] - NumTracks]

(* a built matrix with a valid assignment that uses both blocks *)
C6_Witness ==
    /\ pc = "constructed"
    /\ NumMeas = 2
    /\ \E pi \in ValidAssignments(BuiltMatrix) :
           /\ pi[0] >= NumTracks
           /\ pi[1] < NumTracks
           /\ Len(assignment_to_associations(solver.cost_matrix, pi)) = 2

(* exp(G.log_weight) as the fraction WeightNum / WeightDen *)
WeightNum == Pow2(global_hypothesis.log_weight)
WeightDen == Pow2(-global_hypothesis.log_weight)

(* k = ceil(exp(G.log_weight) * num_of_desired_hypotheses) *)
IsWeightedAllocation(k) ==
    /\ k * WeightDen >= num_of_desired_hypotheses * WeightNum
    /\ (k - 1) * WeightDen < num_of_desired_hypotheses * WeightNum

(* C7: when no max_murty_steps is given, solve draws at most                *)
(* k = ceil(exp(G.log_weight) * num_of_desired_hypotheses) solutions and    *)
(* emits exactly one global per successful draw, so at most k globals.      *)
C7_WeightedAllocationBound ==
    (InSolve /\ max_murty_steps_arg = None) =>
        /\ Len(new_global_hypotheses) = Cardinality(murty_drawn)
        /\ \E k \in 0 .. (num_of_desired_hypotheses * WeightNum) :
               /\ IsWeightedAllocation(k)
               /\ murty_iteration <= k
               /\ Len(new_global_hypotheses) <= k

(* weight 1/2 and two desired hypotheses: solve returns after one global    *)
(* although the solver has more solutions                                   *)
C7_Witness ==
    /\ pc = "returned"
    /\ max_murty_steps_arg = None
    /\ global_hypothesis.log_weight = -1
    /\ num_of_desired_hypotheses = 2
    /\ Len(new_global_hypotheses) = 1
    /\ MurtyNext(BuiltMatrix, murty_drawn) # {}

(* C8: whenever the caller passes a max_murty_steps value, to assign or to  *)
(* AssignmentSolver, the number of Murty draws and of emitted globals is    *)
(* at most max_murty_steps.                                                 *)
C8_MaxMurtyStepsCaps ==
    (InSolve /\ max_murty_steps_arg # None) =>
        /\ murty_iteration <= max_murty_steps_arg
        /\ Len(new_global_hypotheses) <= max_murty_steps_arg

(* C9: with an empty measurement set the first-time-detection stage         *)
(* returns no new tracks and the assignment stage completes without         *)
(* raising and emits no globals.                                            *)
C9_EmptyMeasurementSetValid ==
    NumMeas = 0 =>
        /\ pc # "start" => DOMAIN first_time_tracks = {}
        /\ pc # "raised"
        /\ error = ""
        /\ InSolve => new_global_hypotheses = <<>>

(* some measurement row of the built matrix is all +infinity *)
SomeRowAllInf ==
    \E m \in Range(NumMeas) :
        \A c \in Range(NumTracks + NumMeas) : BuiltMatrix.at[<<m, c>>] = Inf

(* C10: every emitted global comes from a solution whose chosen entries are *)
(* all finite; solve stops drawing at the first failed draw and returns     *)
(* what it has collected (nothing when the first draw fails, as when a row  *)
(* is all +infinity), without raising.                                      *)
C10_NoInfeasibleAssignment ==
    /\ error # "KeyError"
    /\ InSolve =>
        /\ error = ""
        /\ \A i \in 1 .. Len(accepted) :
               \A m \in Range(NumMeas) : BuiltMatrix.at[<<m, accepted[i][m]>>] < Inf
        /\ Len(new_global_hypotheses) = Len(accepted)
        /\ pc = "solving" => murty_iteration = Len(new_global_hypotheses)
        /\ pc = "returned" => murty_iteration <= Len(new_global_hypotheses) + 1
        /\ (pc = "returned" /\ SomeRowAllInf) => new_global_hypotheses = <<>>

(* a row is all +infinity while another has a finite entry: the first draw  *)
(* fails and solve returns the empty list                                   *)
C10_Witness ==
    /\ pc = "returned"
    /\ error = ""
    /\ SomeRowAllInf
    /\ \E m \in Range(NumMeas), c \in Range(NumTracks + NumMeas) :
           BuiltMatrix.at[<<m, c>>] < Inf
    /\ solver.max_murty_steps >= 2
    /\ murty_iteration = 1
    /\ new_global_hypotheses = <<>>

(* how often association a occurs in the list *)
Occurrences(list, a) == Cardinality({k \in 1 .. Len(list) : list[k] = a})

(* C18: for every valid solution on a built cost matrix the optimized       *)
(* decoder returns the same multiset of associations as                     *)
(* assignment_to_associations; no row assigned to an old-track column, the  *)
(* last one (T - 1) included, is dropped.                                   *)
C18_DecodersAgree ==
    Built =>
        \A pi \in ValidAssignments(BuiltMatrix) :
            LET plain == assignment_to_associations(solver.cost_matrix, pi)
                fast == optimized_assignment_to_associations(solver.cost_matrix, pi)
            IN /\ Len(fast) = Len(plain)
               /\ \A k \in 1 .. Len(plain) :
                      Occurrences(fast, plain[k]) = Occurrences(plain, plain[k])

-----------------------------------------------------------------------------
(* PoissonRFS: the intensity of undetected targets                         *)
(*                                                                         *)
(* Mixture components are objects: `heap` maps a reference to the          *)
(* component it holds, and a mixture is a sequence of references, so that  *)
(* a component shared by two mixtures is changed in both.  A probability   *)
(* is a fraction [num, den]; np.log of it is exact for the powers of 1/2.  *)
(* A sum of exponentials is kept exactly as mant * 2^exp.                  *)

Probability(num, den) == [num |-> num, den |-> den]
OneMinus(q) == Probability(q.den - q.num, q.den)

(* np.log(q) in units of ln 2, for q = 2^-k *)
LogOf(q) == -(CHOOSE k \in 0 .. 8 : q.num * Pow2(k) = q.den)

(* a Gaussian state, identified by its origin and what was applied to it *)
Gaussian(id) == [id |-> id, predicted |-> 0, updated |-> <<>>]
(* density.predict(gaussian, motion_model, dt) *)
GaussianPredict(g) == [g EXCEPT !.predicted = @ + 1]
(* Kalman update of the Gaussian by measurement z *)
GaussianUpdate(g, z) == [g EXCEPT !.updated = Append(@, z)]
(* predicted log-likelihood log N(z; H x, H P H' + R) *)
PredictedLogLikelihood(g, z) == -((g.id + g.predicted + Len(g.updated) + z) % 3)

MixtureComponent(log_weight, gaussian) == [log_weight |-> log_weight, gaussian |-> gaussian]

(* the components a mixture refers to *)
Components(h, mixture) == [i \in 1 .. Len(mixture) |-> h[mixture[i]]]

(* copy.deepcopy(mixture): one fresh component for every distinct component *)
(* of the mixture, so entries that were the same object stay the same object *)
deepcopy(h, mixture) ==
    LET FirstAt(i) == CHOOSE j \in 1 .. i :
                          /\ mixture[j] = mixture[i]
                          /\ \A k \in 1 .. (j - 1) : mixture[k] # mixture[i]
        Firsts == {i \in 1 .. Len(mixture) : FirstAt(i) = i}
        RankOf(i) == Cardinality({j \in Firsts : j <= FirstAt(i)})
        copies == [k \in 1 .. Cardinality(Firsts) |->
                      h[mixture[CHOOSE i \in Firsts : RankOf(i) = k]]]
    IN [heap |-> h \o copies,
        refs |-> [i \in 1 .. Len(mixture) |-> Len(h) + RankOf(i)]]

(* PoissonRFS.__init__ *)
(* a constructor that keeps the caller's mixture itself *)
PoissonRFSInitShared(h, mixture) == [heap |-> h, intensity |-> mixture]

PoissonRFSInit(h, mixture) ==
    LET c == deepcopy(h, mixture)
    IN [heap |-> c.heap, intensity |-> c.refs]

(* the loop of predict from its i-th component on *)
RECURSIVE PredictFrom(_, _, _, _)
PredictFrom(h, intens, i, survival_probability) ==
    IF i > Len(intens) THEN h
    ELSE PredictFrom(
             [h EXCEPT ![intens[i]] =
                 MixtureComponent(@.log_weight + LogOf(survival_probability),
                                  GaussianPredict(@.gaussian))],
             intens, i + 1, survival_probability)

predict(h, intens, survival_probability) == PredictFrom(h, intens, 1, survival_probability)

(* the loop of undetected_update from its i-th component on *)
RECURSIVE UndetectedUpdateFrom(_, _, _, _)
UndetectedUpdateFrom(h, intens, i, detection_probability) ==
    IF i > Len(intens) THEN h
    ELSE UndetectedUpdateFrom(
             [h EXCEPT ![intens[i]].log_weight = @ + LogOf(OneMinus(detection_probability))],
             intens, i + 1, detection_probability)

(* an undetected_update that leaves the weights alone *)
undetected_update_skipped(h, intens, detection_probability) == h

undetected_update(h, intens, detection_probability) ==
    UndetectedUpdateFrom(h, intens, 1, detection_probability)

(* a prune that keeps the components at the threshold *)
prune_inclusive(h, intens, threshold) ==
    LET Keep(ref) == h[ref].log_weight >= threshold
    IN SelectSeq(intens, Keep)

prune(h, intens, threshold) ==
    LET Keep(ref) == h[ref].log_weight > threshold
    IN SelectSeq(intens, Keep)

(* GaussianMixture.extend: the components of the other mixture are appended, *)
(* in their order                                                           *)
extend(intens, other) == intens \o other

(* a birth that appends the caller's components themselves *)
birth_shared(h, intens, new_components) ==
    [heap |-> h, intensity |-> extend(intens, new_components)]

birth(h, intens, new_components) ==
    LET c == deepcopy(h, new_components)
    IN [heap |-> c.heap, intensity |-> extend(intens, c.refs)]

(* a positive number mant * 2^exp *)
Lin(mant, exp) == [mant |-> mant, exp |-> exp]
MinOf(a, b) == IF a <= b THEN a ELSE b
LinAdd(a, b) ==
    LET e == MinOf(a.exp, b.exp)
    IN Lin(a.mant * Pow2(a.exp - e) + b.mant * Pow2(b.exp - e), e)

(* the sum of exp(w) over the log-weights w[i], i >= from *)
RECURSIVE SumExpFrom(_, _)
SumExpFrom(w, from) ==
    IF from > Len(w) THEN Lin(0, 0)
    ELSE LinAdd(Lin(1, w[from]), SumExpFrom(w, from + 1))

(* a log-domain value: sign * log(of) *)
LogLin(of) == [sign |-> 1, of |-> of]
LogNeg(x) == [x EXCEPT !.sign = -@]

(* a / b for a <= b *)
LinRatio(a, b) ==
    LET e == MinOf(a.exp, b.exp)
    IN Probability(a.mant * Pow2(a.exp - e), b.mant * Pow2(b.exp - e))

(* normalize_log_weights: (log_weights - logsumexp, logsumexp) *)
normalize_log_weights(log_weights) ==
    LET total == SumExpFrom(log_weights, 1)
    IN [normalized |-> [i \in 1 .. Len(log_weights) |-> LinRatio(Lin(1, log_weights[i]), total)],
        log_sum |-> LogLin(total)]

(* GaussianDensity.update_states_with_likelihoods_by_single_measurement.    *)
(* It is handed the mixture itself; it either works on a copy of its own    *)
(* or stores the updated Gaussians in the components it was given           *)
(* (in_place).                                                              *)
update_states_with_likelihoods_by_single_measurement(h, intens, measurement, in_place) ==
    [updated_ppp_components |->
         [i \in 1 .. Len(intens) |-> GaussianUpdate(h[intens[i]].gaussian, measurement)],
     loglikelihoods |->
         [i \in 1 .. Len(intens) |-> PredictedLogLikelihood(h[intens[i]].gaussian, measurement)],
     heap |->
         IF in_place
         THEN [r \in DOMAIN h |->
                  IF \E i \in 1 .. Len(intens) : intens[i] = r
                  THEN [h[r] EXCEPT !.gaussian = GaussianUpdate(@, measurement)]
                  ELSE h[r]]
         ELSE h]

(* density.moment_matching_vectorized *)
moment_matching_vectorized(normalized_log_weights, states) ==
    [merged |-> [i \in 1 .. Len(states) |-> <<normalized_log_weights[i], states[i]>>]]

Bernoulli(state, existence_probability) ==
    [state |-> state, existence_probability |-> existence_probability]

(* log_weights without the detection probability *)
DetectedLogWeightsNoPD(upd, intens, detection_probability) ==
    [i \in 1 .. Len(intens) |->
        upd.heap[intens[i]].log_weight + upd.loglikelihoods[i]]

(* the log_weights array of detected_update *)
DetectedLogWeights(upd, intens, detection_probability) ==
    [i \in 1 .. Len(intens) |->
        LogOf(detection_probability) + upd.heap[intens[i]].log_weight
        + upd.loglikelihoods[i]]

(* lines 94-121 of PoissonRFS.detected_update: the new STH *)
detected_update_sth(upd, meas_idx, intens, detection_probability, clutter_intensity) ==
    LET log_weights == DetectedLogWeights(upd, intens, detection_probability)
        norm == normalize_log_weights(log_weights)
        merged_state == moment_matching_vectorized(norm.normalized, upd.updated_ppp_components)
        log_likelihood == LogLin(LinAdd(norm.log_sum.of, clutter_intensity))
        existence_probability == LinRatio(norm.log_sum.of, log_likelihood.of)
        bernoulli == Bernoulli(merged_state, existence_probability)
        cost == LogNeg(log_likelihood)
    IN [bernoulli |-> bernoulli]
       @@ SingleTargetHypothesis(0, log_likelihood, cost, meas_idx, <<>>)

(* PoissonRFS.detected_update: the new STH and the heap it leaves behind *)
detected_update(meas, h, intens, detection_probability, clutter_intensity, in_place) ==
    LET meas_idx == meas[1]
        measurement == meas[2]
        upd == update_states_with_likelihoods_by_single_measurement(h, intens, measurement,
                                                                    in_place)
    IN [sth |-> detected_update_sth(upd, meas_idx, intens, detection_probability,
                                    clutter_intensity),
        heap |-> upd.heap]

(* the list comprehension of get_targets_detected_for_first_time from meas_idx on *)
RECURSIVE DetectedUpdatesFrom(_, _, _, _, _, _, _)
DetectedUpdatesFrom(h, intens, meas, meas_idx, detection_probability, clutter_intensity, in_place) ==
    IF meas_idx >= Len(meas) THEN [sths |-> <<>>, heap |-> h]
    ELSE LET one == detected_update(<<meas_idx, meas[meas_idx + 1]>>, h, intens,
                                    detection_probability, clutter_intensity, in_place)
             rest == DetectedUpdatesFrom(one.heap, intens, meas, meas_idx + 1,
                                         detection_probability, clutter_intensity, in_place)
         IN [sths |-> <<one.sth>> \o rest.sths, heap |-> rest.heap]

(* a wrapping that seeds every new track with the first new STH *)
get_targets_from_first_sth(h, intens, meas, counter, detection_probability, clutter_intensity, in_place) ==
    LET all == DetectedUpdatesFrom(h, intens, meas, 0, detection_probability, clutter_intensity,
                                   in_place)
    IN [new_tracks |->
            [k \in 1 .. Len(meas) |-> TrackFromSth(counter + k - 1, all.sths[1])],
        heap |-> all.heap,
        counter |-> counter + Len(meas)]

get_targets_detected_for_first_time(h, intens, meas, counter, detection_probability, clutter_intensity, in_place) ==
    LET all == DetectedUpdatesFrom(h, intens, meas, 0, detection_probability, clutter_intensity,
                                   in_place)
    IN [new_tracks |->
            [k \in 1 .. Len(meas) |-> TrackFromSth(counter + k - 1, all.sths[k])],
        heap |-> all.heap,
        counter |-> counter + Len(meas)]

------------------------------------------------------------------------------
(* State machine of the Poisson point process: a PoissonRFS is constructed
   from a caller's mixture and then receives calls in any order. *)

MaxComponents == 2
MaxCalls == 2

InitialLogWeights == {-2, 0}
(* the log-weights of the birth mixtures a caller passes *)
BirthLogWeightLists == {<<>>, <<-1>>, <<0, -1>>}
SurvivalProbabilities == {Probability(1, 2), Probability(1, 4)}
MissProbabilities == {Probability(1, 2), Probability(3, 4)}
(* detection probability and clutter intensity of the sensor *)
SensorSettings == {<<Probability(1, 4), Lin(1, -3)>>, <<Probability(1, 2), Lin(3, -2)>>}
Thresholds == {-3, -1}
MeasurementValues == {0, 1}
MeasurementLists == {<<>>, <<1>>, <<0, 1>>}

(* the assignment stage does not run *)
NoAssigner ==
    /\ entry = "none"
    /\ used = 0
    /\ global_hypothesis = GlobalHypothesis(0, <<>>)
    /\ old_tracks = <<>>
    /\ num_of_desired_hypotheses = 1
    /\ max_murty_steps_arg = None
    /\ new_tracks = <<>>
    /\ pc = "none"
    /\ error = "none"
    /\ solver = <<>>
    /\ murty_drawn = {}
    /\ murty_iteration = 0
    /\ accepted = 0
    /\ new_global_hypotheses = <<>>

assigner_vars == <<entry, used, global_hypothesis, old_tracks, num_of_desired_hypotheses,
                   max_murty_steps_arg, new_tracks, pc, error, solver, murty_drawn,
                   murty_iteration, accepted, new_global_hypotheses>>

(* what a call sees before it runs *)
Before == [refs |-> intensity, components |-> Components(heap, intensity), heap |-> heap]

InitPPP ==
    /\ NoAssigner
    /\ measurements = <<>>
    /\ track_counter = 0
    /\ first_time_tracks = <<>>
    /\ \E n \in 0 .. MaxComponents :
       \E w \in [1 .. n -> InitialLogWeights] :
          LET caller == [i \in 1 .. n |-> MixtureComponent(w[i], Gaussian(i))]
              given == [i \in 1 .. n |-> i]
              made == PoissonRFSInit(caller, given)
          IN /\ heap = made.heap
             /\ intensity = made.intensity
             /\ given_mixture = given
             /\ originals = [given |-> caller, birth |-> <<>>]
    /\ birth_mixture = <<>>
    /\ last_call = [op |-> "PoissonRFS"]
    /\ issued_ids = {}
    /\ phase = "free"
    /\ calls = 0

PPPPredict ==
    /\ calls < MaxCalls
    /\ \E survival_probability \in SurvivalProbabilities :
          /\ heap' = predict(heap, intensity, survival_probability)
          /\ last_call' = [op |-> "predict", survival_probability |-> survival_probability,
                           before |-> Before]
    /\ calls' = calls + 1
    /\ UNCHANGED <<intensity, given_mixture, birth_mixture, originals, issued_ids, phase,
                   measurements, track_counter, first_time_tracks>>
    /\ UNCHANGED assigner_vars

PPPBirth ==
    /\ calls < MaxCalls
    /\ \E w \in BirthLogWeightLists :
          LET caller == [i \in 1 .. Len(w) |->
                            MixtureComponent(w[i], Gaussian(Len(heap) + i))]
              with_caller == heap \o caller
              new_components == [i \in 1 .. Len(w) |-> Len(heap) + i]
              born == birth(with_caller, intensity, new_components)
          IN /\ heap' = born.heap
             /\ intensity' = born.intensity
             /\ birth_mixture' = birth_mixture \o new_components
             /\ originals' = [originals EXCEPT !.birth = @ \o caller]
             /\ last_call' = [op |-> "birth", new_components |-> new_components,
                              before |-> Before]
    /\ calls' = calls + 1
    /\ UNCHANGED <<given_mixture, issued_ids, phase,
                   measurements, track_counter, first_time_tracks>>
    /\ UNCHANGED assigner_vars

PPPUndetectedUpdate ==
    /\ calls < MaxCalls
    /\ \E detection_probability \in MissProbabilities :
          /\ heap' = undetected_update(heap, intensity, detection_probability)
          /\ last_call' = [op |-> "undetected_update",
                           detection_probability |-> detection_probability,
                           before |-> Before]
    /\ calls' = calls + 1
    /\ UNCHANGED <<intensity, given_mixture, birth_mixture, originals, issued_ids, phase,
                   measurements, track_counter, first_time_tracks>>
    /\ UNCHANGED assigner_vars

PPPPrune ==
    /\ calls < MaxCalls
    /\ \E threshold \in Thresholds :
          /\ intensity' = prune(heap, intensity, threshold)
          /\ last_call' = [op |-> "prune", threshold |-> threshold, before |-> Before]
    /\ calls' = calls + 1
    /\ UNCHANGED <<heap, given_mixture, birth_mixture, originals, issued_ids, phase,
                   measurements, track_counter, first_time_tracks>>
    /\ UNCHANGED assigner_vars

PPPDetectedUpdate ==
    /\ calls < MaxCalls
    /\ Len(intensity) > 0
    /\ \E measurement \in MeasurementValues :
       \E sensor \in SensorSettings :
       \E in_place \in BOOLEAN :
          LET meas == <<0, measurement>>
              detection_probability == sensor[1]
              clutter_intensity == sensor[2]
              done == detected_update(meas, heap, intensity,
                                      detection_probability, clutter_intensity, in_place)
          IN /\ heap' = done.heap
             /\ last_call' = [op |-> "detected_update", meas |-> meas,
                              in_place |-> in_place,
                              detection_probability |-> detection_probability,
                              clutter_intensity |-> clutter_intensity,
                              before |-> Before, result |-> done.sth]
    /\ calls' = calls + 1
    /\ UNCHANGED <<intensity, given_mixture, birth_mixture, originals, issued_ids, phase,
                   measurements, track_counter, first_time_tracks>>
    /\ UNCHANGED assigner_vars

PPPFirstTimeDetection ==
    /\ calls < MaxCalls
    /\ \E meas \in MeasurementLists :
       \E in_place \in BOOLEAN :
          /\ Len(meas) <= MaxMeas
          /\ Len(meas) = 0 \/ Len(intensity) > 0
          /\ LET done == get_targets_detected_for_first_time(
                             heap, intensity, meas, track_counter,
                             Probability(1, 2), Lin(1, -3), in_place)
             IN /\ heap' = done.heap
                /\ measurements' = meas
                /\ first_time_tracks' = done.new_tracks
                /\ track_counter' = done.counter
                /\ issued_ids' = issued_ids \cup Keys(done.new_tracks)
                /\ last_call' = [op |-> "get_targets_detected_for_first_time",
                                 in_place |-> in_place,
                                 before |-> Before, issued_before |-> issued_ids]
    /\ calls' = calls + 1
    /\ UNCHANGED <<intensity, given_mixture, birth_mixture, originals, phase>>
    /\ UNCHANGED assigner_vars

NextPPP ==
    \/ PPPPredict
    \/ PPPBirth
    \/ PPPUndetectedUpdate
    \/ PPPPrune
    \/ PPPDetectedUpdate
    \/ PPPFirstTimeDetection

SpecPPP == InitPPP /\ [][NextPPP]_vars

------------------------------------------------------------------------------
(* Properties of the Poisson point process *)

Called(op) == last_call.op = op
Now == Components(heap, intensity)
Elements(seq) == {seq[i] : i \in 1 .. Len(seq)}
IndexIn(seq, x) == CHOOSE i \in 1 .. Len(seq) : seq[i] = x

(* C13: predict adds log(p_s) to every component's log_weight and replaces
   every Gaussian by its prediction, keeping number and order; the mixture
   given to the constructor is never modified. *)
C13_PredictAgesEveryComponent ==
    /\ Components(heap, given_mixture) = originals.given
    /\ Called("predict") =>
          /\ intensity = last_call.before.refs
          /\ Len(Now) = Len(last_call.before.components)
          /\ \A i \in 1 .. Len(Now) :
                LET was == last_call.before.components[i]
                    p_s == last_call.survival_probability
                IN /\ Now[i].log_weight <= was.log_weight
                   /\ p_s.num * Pow2(was.log_weight - Now[i].log_weight) = p_s.den
                   /\ Now[i].gaussian = GaussianPredict(was.gaussian)

C13_Witness ==
    /\ Called("predict")
    /\ Len(intensity) >= 2
    /\ Len(given_mixture) >= 2
    /\ Now[1].log_weight # Now[2].log_weight

(* C14: birth appends copies of the new components, in their order, after
   the previous components, which stay as they were, so the size grows by
   len(new_components); the copies are owned: no later call changes any
   birth mixture that was passed in. *)
C14_BirthAppendsOwnedCopies ==
    /\ Components(heap, birth_mixture) = originals.birth
    /\ Called("birth") =>
          /\ Now = last_call.before.components \o Components(heap, last_call.new_components)
          /\ Len(intensity) = Len(last_call.before.refs) + Len(last_call.new_components)
          /\ SubSeq(intensity, 1, Len(last_call.before.refs)) = last_call.before.refs
          /\ Elements(intensity) \cap Elements(birth_mixture) = {}

(* two components of different weights were born onto a non-empty
   intensity and the PPP has aged them since, the caller's birth mixture
   being as it was passed in *)
C14_Witness ==
    /\ Called("predict") \/ Called("undetected_update")
    /\ Len(birth_mixture) >= 2
    /\ Len(intensity) > Len(birth_mixture)
    /\ originals.birth[1].log_weight # originals.birth[2].log_weight
    /\ \A k \in 1 .. Len(birth_mixture) :
       \E i \in 1 .. Len(intensity) :
          /\ Now[i].gaussian.id = originals.birth[k].gaussian.id
          /\ Now[i].log_weight < originals.birth[k].log_weight

(* C15: prune keeps exactly the components with log_weight > threshold, in
   their order and unmodified, drops the others (equality included), and a
   second prune with the same threshold changes nothing. *)
C15_PruneKeepsAboveThreshold ==
    Called("prune") =>
        LET was == last_call.before.refs
            threshold == last_call.threshold
        IN /\ heap = last_call.before.heap
           /\ \A r \in Elements(was) : r \in Elements(intensity) <=> heap[r].log_weight > threshold
           /\ Elements(intensity) \subseteq Elements(was)
           /\ \A i, j \in 1 .. Len(intensity) :
                 i < j => IndexIn(was, intensity[i]) < IndexIn(was, intensity[j])
           /\ \A i \in 1 .. Len(intensity) : ~(Now[i].log_weight <= threshold)
           /\ prune(heap, intensity, threshold) = intensity

C15_Witness ==
    /\ Called("prune")
    /\ Len(intensity) >= 1
    /\ \E r \in Elements(last_call.before.refs) : heap[r].log_weight = last_call.threshold
    /\ \E r \in Elements(last_call.before.refs) : heap[r].log_weight < last_call.threshold

(* C11: detected_update for any measurement and
   get_targets_detected_for_first_time for any measurement list leave the
   stored intensity as it was: number, order, log_weight and Gaussian of
   every component. *)
C11_FirstTimeDetectionLeavesIntensity ==
    (Called("detected_update") \/ Called("get_targets_detected_for_first_time")) =>
        /\ intensity = last_call.before.refs
        /\ Len(Now) = Len(last_call.before.components)
        /\ \A i \in 1 .. Len(Now) :
              /\ Now[i].log_weight = last_call.before.components[i].log_weight
              /\ Now[i].gaussian = last_call.before.components[i].gaussian

(* the sum of 2^(w[i] - floor) over i >= from *)
RECURSIVE ScaledSumFrom(_, _, _)
ScaledSumFrom(w, floor, from) ==
    IF from > Len(w) THEN 0
    ELSE Pow2(w[from] - floor) + ScaledSumFrom(w, floor, from + 1)

(* C12: with w_i = log p_D + log_weight_i + l_i over all components and
   W = logsumexp(w), detected_update returns log_likelihood =
   logsumexp(W, log clutter_intensity), cost = -log_likelihood and existence
   probability r = exp(W - log_likelihood); so r is in [0, 1] and
   log_likelihood >= max(W, log clutter_intensity).  Every quantity is
   compared in the linear domain, scaled by 2^(-floor). *)
C12_DetectedUpdateNumerics ==
    Called("detected_update") =>
        LET sth == last_call.result
            p_D == last_call.detection_probability
            lambda == last_call.clutter_intensity
            was == last_call.before.components
            log_p_D == CHOOSE x \in -8 .. 0 : p_D.num * Pow2(-x) = p_D.den
            w == [i \in 1 .. Len(was) |->
                    log_p_D + was[i].log_weight
                    + PredictedLogLikelihood(was[i].gaussian, last_call.meas[2])]
            exponents == {w[i] : i \in 1 .. Len(w)} \cup {lambda.exp}
            floor == CHOOSE e \in exponents : \A x \in exponents : e <= x
            expW == ScaledSumFrom(w, floor, 1)
            clutter == lambda.mant * Pow2(lambda.exp - floor)
            likelihood == sth.log_likelihood.of.mant * Pow2(sth.log_likelihood.of.exp - floor)
            r == sth.bernoulli.existence_probability
        IN /\ sth.log_likelihood.sign = 1
           /\ sth.log_likelihood.of.exp >= floor
           /\ likelihood = expW + clutter
           /\ sth.cost.sign = -1
           /\ sth.cost.of = sth.log_likelihood.of
           /\ r.den > 0
           /\ r.num * likelihood = r.den * expW
           /\ 0 <= r.num /\ r.num <= r.den
           /\ likelihood >= expW /\ likelihood >= clutter

C12_Witness ==
    /\ Called("detected_update")
    /\ Len(intensity) >= 2
    /\ Now[1].log_weight # Now[2].log_weight
    /\ last_call.result.bernoulli.existence_probability.num * 2
           > last_call.result.bernoulli.existence_probability.den
    /\ last_call.detection_probability = Probability(1, 4)

(* the new tracks whose single root STH has sth_id 0 and comes from measurement m *)
NewTracksOfMeasurement(m) ==
    {id \in Keys(first_time_tracks) :
        \E i \in DOMAIN first_time_tracks :
            /\ first_time_tracks[i].track_id = id
            /\ DOMAIN first_time_tracks[i].single_target_hypotheses = {0}
            /\ first_time_tracks[i].single_target_hypotheses[0].sth_id = 0
            /\ first_time_tracks[i].single_target_hypotheses[0].meas_idx = m}

(* C16: get_targets_detected_for_first_time on M measurements returns M new
   tracks under pairwise distinct track ids that no earlier call issued, and
   every measurement index in 0..M-1 has exactly one new track whose single
   root STH has sth_id 0 and that meas_idx. *)
C16_OneFreshTrackPerMeasurement ==
    Called("get_targets_detected_for_first_time") =>
        /\ Len(first_time_tracks) = Len(measurements)
        /\ Cardinality(Keys(first_time_tracks)) = Len(measurements)
        /\ Keys(first_time_tracks) \cap last_call.issued_before = {}
        /\ \A m \in 0 .. (Len(measurements) - 1) :
              Cardinality(NewTracksOfMeasurement(m)) = 1

C16_Witness ==
    /\ Called("get_targets_detected_for_first_time")
    /\ Len(measurements) >= 2
    /\ last_call.issued_before # {}
    /\ Cardinality(Keys(first_time_tracks)) >= 2

------------------------------------------------------------------------------
(* Ageing of the Poisson point process: with no birth, the tracker step
   calls predict, undetected_update and prune in turn, again and again. *)

AgeingThresholds == {-6, -3}

InitAgeing ==
    /\ NoAssigner
    /\ measurements = <<>>
    /\ track_counter = 0
    /\ first_time_tracks = <<>>
    /\ \E n \in 0 .. MaxComponents :
       \E w \in [1 .. n -> InitialLogWeights] :
          LET caller == [i \in 1 .. n |-> MixtureComponent(w[i], Gaussian(i))]
              given == [i \in 1 .. n |-> i]
              made == PoissonRFSInit(caller, given)
          IN /\ heap = made.heap
             /\ intensity = made.intensity
             /\ given_mixture = given
             /\ originals = [given |-> caller, birth |-> <<>>]
    /\ birth_mixture = <<>>
    /\ last_call = [op |-> "PoissonRFS"]
    /\ issued_ids = {}
    /\ phase = "predict"
    /\ calls = 0

AgePredict ==
    /\ phase = "predict"
    /\ \E survival_probability \in SurvivalProbabilities :
          /\ heap' = predict(heap, intensity, survival_probability)
          /\ last_call' = [op |-> "predict", survival_probability |-> survival_probability,
                           cycle |-> Before]
    /\ phase' = "undetected_update"
    /\ UNCHANGED <<intensity, given_mixture, birth_mixture, originals, issued_ids, calls,
                   measurements, track_counter, first_time_tracks>>
    /\ UNCHANGED assigner_vars

AgeUndetectedUpdate ==
    /\ phase = "undetected_update"
    /\ \E detection_probability \in MissProbabilities :
          /\ heap' = undetected_update(heap, intensity, detection_probability)
          /\ last_call' = [op |-> "undetected_update",
                           survival_probability |-> last_call.survival_probability,
                           detection_probability |-> detection_probability,
                           cycle |-> last_call.cycle]
    /\ phase' = "prune"
    /\ UNCHANGED <<intensity, given_mixture, birth_mixture, originals, issued_ids, calls,
                   measurements, track_counter, first_time_tracks>>
    /\ UNCHANGED assigner_vars

AgePrune ==
    /\ phase = "prune"
    /\ \E threshold \in AgeingThresholds :
          /\ intensity' = prune(heap, intensity, threshold)
          /\ last_call' = [op |-> "prune",
                           survival_probability |-> last_call.survival_probability,
                           detection_probability |-> last_call.detection_probability,
                           threshold |-> threshold,
                           cycle |-> last_call.cycle]
    /\ phase' = "predict"
    /\ UNCHANGED <<heap, given_mixture, birth_mixture, originals, issued_ids, calls,
                   measurements, track_counter, first_time_tracks>>
    /\ UNCHANGED assigner_vars

NextAgeing ==
    \/ AgePredict
    \/ AgeUndetectedUpdate
    \/ AgePrune

(* the tracker step keeps being called *)
SpecAgeing == InitAgeing /\ [][NextAgeing]_vars /\ WF_vars(NextAgeing)

(* a cycle predict ; undetected_update ; prune has just been completed *)
CycleDone == phase = "predict" /\ Called("prune")

(* after a cycle every survivor is a component of the cycle's start, in the
   same order, with its Gaussian predicted once and its log_weight lowered by
   drop > 0 where p_s * (1 - p_D) * 2^drop = 1 *)
CycleSafety ==
    CycleDone =>
        LET was == last_call.cycle
            p_s == last_call.survival_probability
            p_D == last_call.detection_probability
        IN /\ Len(intensity) <= Len(was.refs)
           /\ Elements(intensity) \subseteq Elements(was.refs)
           /\ \A i, j \in 1 .. Len(intensity) :
                 i < j => IndexIn(was.refs, intensity[i]) < IndexIn(was.refs, intensity[j])
           /\ \A i \in 1 .. Len(intensity) :
                 LET old == was.components[IndexIn(was.refs, intensity[i])]
                     drop == old.log_weight - Now[i].log_weight
                 IN /\ drop > 0
                    /\ p_s.num * (p_D.den - p_D.num) * Pow2(drop) = p_s.den * p_D.den
                    /\ Now[i].gaussian = GaussianPredict(old.gaussian)
           /\ \A r \in DOMAIN heap :
                 r \notin Elements(was.refs) => heap[r] = was.heap[r]
           /\ DOMAIN heap = DOMAIN was.heap

NeverGrows == [][Len(intensity') <= Len(intensity)]_vars

(* C17: with no birth, every cycle predict ; undetected_update ; prune lowers
   each survivor's log_weight by exactly -(log p_s + log(1 - p_D)) > 0 and
   changes nothing else but the predicted Gaussians, the PPP never grows, and
   the PPP eventually becomes empty and stays empty. *)
C17_AgeingEmptiesThePPP ==
    /\ [](CycleSafety)
    /\ NeverGrows
    /\ <>[](Len(intensity) = 0)

C17_Witness ==
    /\ CycleDone
    /\ Len(intensity) >= 1
    /\ Len(intensity) < Len(last_call.cycle.refs)
    /\ Now[1].gaussian.predicted >= 2

====
